---- MODULE Spec2Model ----
(***************************************************************************)
(* Write coalescing and debounce of firewrapper (src/src/store.js,         *)
(* src/src/asyncstore.js): SetItem with its delayed path over localStorage *)
(* and setTimeout, the Firestore put it issues, and the beforeunload guard *)
(* clearCacheBeforeUnload.                                                 *)
(*                                                                         *)
(* Identifiers are drawn from names without '.', '-TIMER' or '-MERGE', so  *)
(* the localStorage keys `${collectionId}.${itemId}`, `...-TIMER` and      *)
(* `...-MERGE` of distinct documents are distinct; the four families of    *)
(* localStorage entries are therefore kept as four partial maps.           *)
(***************************************************************************)
EXTENDS Integers, Sequences, FiniteSets, TLC

\* ------------------------------------------------------------ bounds
\* Number of SetItem calls in a run.
MaxCalls == 3

\* ------------------------------------------------------------ constants
\* setTimeout(saveToBackend, 5000): first buffered write of an empty cache.
InitialDelay == 5000
\* setTimeout(saveToBackend, 3000): write on a non-empty cache.
RepeatDelay == 3000

SUCCESS == "SUCCESS"
ERROR == "ERROR"

Collections == {"users"}
Items == {"u1", "u2"}

\* The arguments the modelled callers pass to SetItem.
Write(itemId, data, overwrite) ==
  [collectionId |-> "users", itemId |-> itemId, data |-> data, overwrite |-> overwrite]


\* Writes whose data carries no _METADATA.
PlainWrites ==
  { Write("u1", [a |-> 1], FALSE), Write("u1", [b |-> 2], FALSE),
    Write("u1", [b |-> 2], TRUE), Write("u2", [a |-> 1], FALSE) }

VARIABLES
  now,          \* value of new Date() at the latest call (logical clock)
  lsDocument,   \* localStorage[`${collectionId}.${itemId}`], parsed
  lsTimer,      \* localStorage[`${documentKey}-TIMER`], parsed
  lsMerge,      \* localStorage[`${documentKey}-MERGE`], parsed
  lsTimerIds,   \* localStorage['TIMER_IDS'], parsed; domain {} when absent
  timers,       \* armed timeouts, each with the closure of its saveToBackend
  nextTimerId,  \* next handle setTimeout returns
  inflight,     \* setDoc promises not yet settled, oldest first
  backend,      \* documents stored in Firestore
  calls,        \* history: the SetItem calls made
  puts,         \* history: the setDoc calls made
  cbLog,        \* history: the callback invocations
  cancelled,    \* history: handles of armed timers that clearTimeout removed
  settled,      \* history: the setDoc promises settled, with their outcome
  unload        \* history: the latest run of clearCacheBeforeUnload

vars == << now, lsDocument, lsTimer, lsMerge, lsTimerIds, timers, nextTimerId,
           inflight, backend, calls, puts, cbLog, cancelled, settled, unload >>

\* ------------------------------------------------------------ values
\* new Date() at logical time t.
DateAt(t) == [kind |-> "Date", t |-> t]

\* JSON.stringify of a Date is its ISO string; JSON.parse leaves the string.
JSONValue(v) == IF v.kind = "Date" THEN [kind |-> "ISO", t |-> v.t] ELSE v

DateFields == {"_DATE_LAST_MODIFIED", "_DATE_CREATED"}

\* JSON.parse(JSON.stringify(_METADATA)).
JSONMetadata(m) ==
  [f \in DOMAIN m |-> IF f \in DateFields THEN JSONValue(m[f]) ELSE m[f]]

\* JSON.parse(JSON.stringify(document)): what a localStorage round trip yields.
JSONRoundTrip(document) ==
  [f \in DOMAIN document |->
     IF f = "_METADATA" THEN JSONMetadata(document[f]) ELSE document[f]]

\* { ...x, ...y }
Spread(x, y) ==
  [f \in DOMAIN x \cup DOMAIN y |-> IF f \in DOMAIN y THEN y[f] ELSE x[f]]

\* `${collectionId}.${itemId}`
documentKey(collectionId, itemId) == << collectionId, itemId >>

DocumentKeys == { documentKey(c, i) : c \in Collections, i \in Items }

\* localStorage.setItem(k, v) on one family of entries.
With(m, k, v) == [x \in DOMAIN m \cup {k} |-> IF x = k THEN v ELSE m[x]]

\* timerIds.filter((id) => id !== cacheTimerId)
RECURSIVE Filter(_, _)
Filter(ids, cacheTimerId) ==
  IF ids = << >> THEN << >>
  ELSE IF Head(ids) = cacheTimerId THEN Filter(Tail(ids), cacheTimerId)
       ELSE << Head(ids) >> \o Filter(Tail(ids), cacheTimerId)

\* ------------------------------------------------------------ stamping
\* _METADATA of SetItem: _DATE_CREATED only when overwrite is set or the
\* caller's data carries none.
SetItemMetadata(itemId, data, overwrite, currentdate) ==
  LET base == [_DATE_LAST_MODIFIED |-> currentdate, _DOCUMENT_ID |-> itemId]
      noCreated == \/ "_METADATA" \notin DOMAIN data
                   \/ "_DATE_CREATED" \notin DOMAIN data._METADATA
  IN IF overwrite \/ noCreated
       THEN Spread(base, [_DATE_CREATED |-> currentdate])
       ELSE base

\* const document = { ...data, _METADATA }
Stamp(itemId, data, overwrite, currentdate) ==
  Spread(data, [_METADATA |-> SetItemMetadata(itemId, data, overwrite, currentdate)])

\* The generated id left out: _DOCUMENT_ID is the collection's id.
AddItemMetadataCollectionId(collectionId, docRefId, currentdate) ==
  [ _DATE_LAST_MODIFIED |-> currentdate, _DATE_CREATED |-> currentdate,
    _DOCUMENT_ID |-> collectionId ]

\* _METADATA of AddItem: both dates are the one new Date() of the call,
\* _DOCUMENT_ID is docRef.id, the id Firestore generated for the reference.
AddItemMetadata(collectionId, docRefId, currentdate) ==
  [ _DATE_LAST_MODIFIED |-> currentdate, _DATE_CREATED |-> currentdate,
    _DOCUMENT_ID |-> docRefId ]

\* ------------------------------------------------------------ backend
\* setDoc(docRef, document, { merge }): with merge the fields of document are
\* written over the stored ones and nested maps are merged field by field;
\* without it the stored document is replaced.
FirestoreSet(stored, hasStored, document, merge) ==
  IF merge /\ hasStored
    THEN [f \in DOMAIN stored \cup DOMAIN document |->
            IF f \notin DOMAIN document THEN stored[f]
            ELSE IF f = "_METADATA" /\ f \in DOMAIN stored
                   THEN Spread(stored[f], document[f])
                   ELSE document[f]]
    ELSE document

\* A caller's read-modify-write: fresh fields together with the _METADATA of
\* the document Firestore holds for the key (none when it holds no document).
WithStoredMetadata(collectionId, itemId, fields) ==
  LET key == documentKey(collectionId, itemId)
  IN IF key \in DOMAIN backend /\ "_METADATA" \in DOMAIN backend[key]
       THEN { Spread(fields, [_METADATA |-> backend[key]._METADATA]) }
       ELSE {}

\* ------------------------------------------------------------ SetItem (store.js)
\* if (!collectionId || !itemId || !data)
InvalidArguments(missing) == missing # "none"

\* const cacheIsEmpty = !localStorage.getItem(documentKey)
cacheIsEmpty(key) == key \notin DOMAIN lsDocument

\* let timerIds = JSON.parse(localStorage.getItem(timerIDsKey)); if (!timerIds) timerIds = []
ReadTimerIds ==
  IF "TIMER_IDS" \in DOMAIN lsTimerIds THEN lsTimerIds["TIMER_IDS"] ELSE << >>

\* The timer entry read under a key that was never written: null.
ReadCacheTimerIdWrongKey(key) == 0

\* JSON.parse(localStorage.getItem(timerKey)); handles start at 1, 0 is null
ReadCacheTimerId(key) == IF key \in DOMAIN lsTimer THEN lsTimer[key] ELSE 0

\* clearTimeout dropping every armed timeout, whatever its handle.
clearTimeoutAll(armed, id) == {}

\* clearTimeout left out: the old timeout stays armed.
clearTimeoutOmitted(armed, id) == armed

\* clearTimeout(id): the timeout with that handle, if still armed, is dropped.
clearTimeout(armed, id) == { t \in armed : t.id # id }

\* setDoc(docRef, document, { merge: true }) whatever overwrite is.
saveToBackendAlwaysMerge(collectionId, itemId, document, overwrite, call, timer) ==
  [ collectionId |-> collectionId, itemId |-> itemId, document |-> document,
    merge |-> TRUE, call |-> call, timer |-> timer, variant |-> "store" ]

\* The setDoc call of saveToBackend, with the variables of the enclosing call:
\* setDoc(docRef, document, { merge: !overwrite }). timer is the handle of the
\* timeout that ran it (0 when SetItem ran it itself), kept as history.
saveToBackend(collectionId, itemId, document, overwrite, call, timer) ==
  [ collectionId |-> collectionId, itemId |-> itemId, document |-> document,
    merge |-> ~overwrite, call |-> call, timer |-> timer, variant |-> "store" ]

\* setTimeout(saveToBackend, delay): the armed timeout and its closure.
setTimeout(id, collectionId, itemId, document, overwrite, call, delay) ==
  [ id |-> id, collectionId |-> collectionId, itemId |-> itemId,
    document |-> document, overwrite |-> overwrite, call |-> call,
    delay |-> delay ]

\* The cached document merged with the new one whatever overwrite is.
UpdateCacheAlwaysMerge(cacheData, document, overwrite) ==
  JSONRoundTrip(Spread(cacheData, document))

\* The cached document after a write on a non-empty cache.
UpdateCache(cacheData, document, overwrite) ==
  IF overwrite THEN JSONRoundTrip(document)
  ELSE JSONRoundTrip(Spread(cacheData, document))

\* The merge flag stored as true whatever overwrite is.
mergeFlagAlwaysTrue(overwrite) == TRUE

\* const merge = !overwrite, the value stored under the key's -MERGE entry.
mergeFlag(overwrite) == ~overwrite

\* The early return left out: every call is buffered.
neverSkipsDelay(useDelay) == FALSE

\* if (!useDelay) return saveToBackend()
skipsDelay(useDelay) == ~useDelay

\* Placeholder for the document of a call that returned before stamping.
NoDocument == [none |-> TRUE]

\* The timeouts armed for a document key.
LiveTimers(key) ==
  { t \in timers : documentKey(t.collectionId, t.itemId) = key }

\* The burst a buffered write belongs to, named by the call that started it:
\* the burst of the write whose timeout is armed for the key, or a new burst
\* when none is armed. 0 for a call that buffers nothing.
BurstAt(variant, key, useDelay, valid) ==
  IF ~(variant = "store" /\ valid /\ useDelay) THEN 0
  ELSE IF LiveTimers(key) = {} THEN Len(calls) + 1
  ELSE calls[(CHOOSE t \in LiveTimers(key) : TRUE).call].burst

\* The record of a call kept in the history; stored is the set holding the
\* document Firestore has for the key when the call is made.
CallRecord(variant, collectionId, itemId, data, overwrite, useDelay, valid, document) ==
  [ variant |-> variant, collectionId |-> collectionId, itemId |-> itemId,
    data |-> data, overwrite |-> overwrite, useDelay |-> useDelay,
    valid |-> valid, document |-> document, at |-> now + 1,
    burst |-> BurstAt(variant, documentKey(collectionId, itemId), useDelay, valid),
    stored |-> IF documentKey(collectionId, itemId) \in DOMAIN backend
                 THEN { backend[documentKey(collectionId, itemId)] } ELSE {} ]

Terminated == unload.called /\ unload.outcome # "veto"

CanCall == ~Terminated /\ Len(calls) < MaxCalls

\* The runs explored hold any number of valid calls of the first SetItem of
\* store.js and at most one other call (an invalid one, one of the other
\* two SetItem functions, or AddItem).
CanCallOther ==
  /\ CanCall
  /\ \A c \in 1..Len(calls) : calls[c].variant = "store" /\ calls[c].valid

\* SetItem called with an argument missing: callback(ERROR, ...) and return.
SetItemInvalid(collectionId, itemId, data, overwrite, useDelay, missing) ==
  /\ CanCallOther
  /\ InvalidArguments(missing)
  /\ now' = now + 1
  /\ calls' = Append(calls, CallRecord("store", collectionId, itemId, data,
                                       overwrite, useDelay, FALSE, NoDocument))
  /\ cbLog' = Append(cbLog, [call |-> Len(calls) + 1, status |-> ERROR,
                             payload |-> [message |-> "Invalid parameters"]])
  /\ UNCHANGED << lsDocument, lsTimer, lsMerge, lsTimerIds, timers, nextTimerId,
                  inflight, backend, puts, cancelled, settled, unload >>

\* The path without delay clearing the timeout armed for the key.
ImmediatePathClearing(collectionId, itemId, document, overwrite, call) ==
  LET put == saveToBackend(collectionId, itemId, document, overwrite, call, 0)
      live == LiveTimers(documentKey(collectionId, itemId))
  IN /\ puts' = Append(puts, put)
     /\ inflight' = Append(inflight, put)
     /\ timers' = timers \ live
     /\ cancelled' = cancelled \cup { t.id : t \in live }
     /\ UNCHANGED << lsDocument, lsTimer, lsMerge, lsTimerIds, nextTimerId,
                     settled >>

\* The path without delay: return saveToBackend().
ImmediatePath(collectionId, itemId, document, overwrite, call) ==
  LET put == saveToBackend(collectionId, itemId, document, overwrite, call, 0)
  IN /\ puts' = Append(puts, put)
     /\ inflight' = Append(inflight, put)
     /\ UNCHANGED << lsDocument, lsTimer, lsMerge, lsTimerIds, timers,
                     nextTimerId, cancelled, settled >>

\* The path below "DELAY": cache the document, (re)start the timer, set the
\* merge flag, store TIMER_IDS.
DelayedPath(collectionId, itemId, document, overwrite, call) ==
  LET key == documentKey(collectionId, itemId)
      timerIds == ReadTimerIds
      timerID == nextTimerId
  IN /\ nextTimerId' = nextTimerId + 1
     /\ lsTimer' = With(lsTimer, key, timerID)
     /\ lsMerge' = With(lsMerge, key, mergeFlag(overwrite))
     /\ IF cacheIsEmpty(key)
          THEN /\ lsDocument' = With(lsDocument, key, JSONRoundTrip(document))
               /\ timers' = timers \cup
                    { setTimeout(timerID, collectionId, itemId, document,
                                 overwrite, call, InitialDelay) }
               /\ lsTimerIds' = [x \in {"TIMER_IDS"} |-> timerIds]
               /\ UNCHANGED cancelled
          ELSE LET cacheData == lsDocument[key]
                   cacheTimerId == ReadCacheTimerId(key)
                   kept == clearTimeout(timers, cacheTimerId)
               IN /\ lsDocument' = With(lsDocument, key,
                                        UpdateCache(cacheData, document, overwrite))
                  /\ cancelled' = cancelled \cup { t.id : t \in timers \ kept }
                  /\ timers' = kept \cup
                       { setTimeout(timerID, collectionId, itemId, document,
                                    overwrite, call, RepeatDelay) }
                  /\ lsTimerIds' = [x \in {"TIMER_IDS"} |->
                                      Append(Filter(timerIds, cacheTimerId), timerID)]
     /\ UNCHANGED << inflight, puts, settled >>

\* SetItem of store.js with valid arguments.
SetItem(collectionId, itemId, data, overwrite, useDelay) ==
  LET call == Len(calls) + 1
      document == Stamp(itemId, data, overwrite, DateAt(now + 1))
  IN /\ CanCall
     /\ now' = now + 1
     /\ calls' = Append(calls, CallRecord("store", collectionId, itemId, data,
                                          overwrite, useDelay, TRUE, document))
     /\ IF skipsDelay(useDelay)
          THEN ImmediatePath(collectionId, itemId, document, overwrite, call)
          ELSE DelayedPath(collectionId, itemId, document, overwrite, call)
     /\ UNCHANGED << backend, cbLog, unload >>

\* The timeout is dropped without running saveToBackend.
TimerFireLost(t) ==
  /\ ~Terminated
  /\ t \in timers
  /\ timers' = timers \ {t}
  /\ UNCHANGED << now, lsDocument, lsTimer, lsMerge, lsTimerIds, nextTimerId,
                  inflight, backend, calls, puts, cbLog, cancelled, settled,
                  unload >>

\* The timeout sends the cached document of its key, not its closure's.
TimerFireFromCache(t) ==
  LET put == saveToBackend(t.collectionId, t.itemId,
                           lsDocument[documentKey(t.collectionId, t.itemId)],
                           t.overwrite, t.call, t.id)
  IN /\ ~Terminated
     /\ t \in timers
     /\ timers' = timers \ {t}
     /\ puts' = Append(puts, put)
     /\ inflight' = Append(inflight, put)
     /\ UNCHANGED << now, lsDocument, lsTimer, lsMerge, lsTimerIds, nextTimerId,
                     backend, calls, cbLog, cancelled, settled, unload >>

\* An armed timeout expires and runs its saveToBackend.
TimerFire(t) ==
  LET put == saveToBackend(t.collectionId, t.itemId, t.document, t.overwrite,
                           t.call, t.id)
  IN /\ ~Terminated
     /\ t \in timers
     /\ timers' = timers \ {t}
     /\ puts' = Append(puts, put)
     /\ inflight' = Append(inflight, put)
     /\ UNCHANGED << now, lsDocument, lsTimer, lsMerge, lsTimerIds, nextTimerId,
                     backend, calls, cbLog, cancelled, settled, unload >>

\* ------------------------------------------------------------ SetItem (asyncstore.js)
\* asyncstore SetItem: stamps and returns setDoc(...); useDelay is not read
\* and the callback is only used for invalid arguments.
AsyncSetItem(collectionId, itemId, data, overwrite, useDelay) ==
  LET call == Len(calls) + 1
      document == Stamp(itemId, data, overwrite, DateAt(now + 1))
      put == [ collectionId |-> collectionId, itemId |-> itemId,
               document |-> document, merge |-> ~overwrite, call |-> call,
               timer |-> 0, variant |-> "asyncstore" ]
  IN /\ CanCallOther
     /\ now' = now + 1
     /\ calls' = Append(calls, CallRecord("asyncstore", collectionId, itemId,
                                          data, overwrite, useDelay, TRUE, document))
     /\ puts' = Append(puts, put)
     /\ inflight' = Append(inflight, put)
     /\ UNCHANGED << lsDocument, lsTimer, lsMerge, lsTimerIds, timers,
                     nextTimerId, backend, cbLog, cancelled, settled, unload >>

\* asyncstore SetItem called with an argument missing: callback(ERROR, ...)
\* and return.
AsyncSetItemInvalid(collectionId, itemId, data, overwrite, useDelay, missing) ==
  /\ CanCallOther
  /\ InvalidArguments(missing)
  /\ now' = now + 1
  /\ calls' = Append(calls, CallRecord("asyncstore", collectionId, itemId, data,
                                       overwrite, useDelay, FALSE, NoDocument))
  /\ cbLog' = Append(cbLog, [call |-> Len(calls) + 1, status |-> ERROR,
                             payload |-> [message |-> "Invalid parameters"]])
  /\ UNCHANGED << lsDocument, lsTimer, lsMerge, lsTimerIds, timers, nextTimerId,
                  inflight, backend, puts, cancelled, settled, unload >>

\* ------------------------------------------------------------ SetItem (store.js, second definition)
\* The second SetItem of store.js takes no useDelay and does not stamp. It
\* calls getDatabase, which the file neither imports nor defines: the call
\* throws a ReferenceError unless the page defines a global of that name.
LegacySetItem(collectionId, itemId, data, overwrite, useDelay, getDatabaseDefined) ==
  LET call == Len(calls) + 1
      put == [ collectionId |-> collectionId, itemId |-> itemId,
               document |-> data, merge |-> ~overwrite, call |-> call,
               timer |-> 0, variant |-> "store_legacy" ]
  IN /\ CanCallOther
     /\ now' = now + 1
     /\ calls' = Append(calls, CallRecord("store_legacy", collectionId, itemId,
                                          data, overwrite, useDelay, TRUE, data))
     /\ puts' = IF getDatabaseDefined THEN Append(puts, put) ELSE puts
     /\ inflight' = IF getDatabaseDefined THEN Append(inflight, put) ELSE inflight
     /\ UNCHANGED << lsDocument, lsTimer, lsMerge, lsTimerIds, timers,
                     nextTimerId, backend, cbLog, cancelled, settled, unload >>

\* The value of an argument as passed: a missing identifier is falsy (the
\* empty string stands for it), missing data is undefined.
Argument(missing, name, value) ==
  IF missing # name THEN value
  ELSE IF name = "data" THEN [undefined |-> TRUE] ELSE ""

\* The second SetItem of store.js called with an argument missing:
\* callback(ERROR, ...) is not followed by a return, so the function goes on
\* to getDatabase and, when that is defined, to setDoc with the arguments as
\* passed.
LegacySetItemInvalid(collectionId, itemId, data, overwrite, useDelay, missing, getDatabaseDefined) ==
  LET call == Len(calls) + 1
      put == [ collectionId |-> Argument(missing, "collectionId", collectionId),
               itemId |-> Argument(missing, "itemId", itemId),
               document |-> Argument(missing, "data", data),
               merge |-> ~overwrite, call |-> call,
               timer |-> 0, variant |-> "store_legacy" ]
  IN /\ CanCallOther
     /\ InvalidArguments(missing)
     /\ now' = now + 1
     /\ calls' = Append(calls, CallRecord("store_legacy", collectionId, itemId,
                                          data, overwrite, useDelay, FALSE,
                                          NoDocument))
     /\ cbLog' = Append(cbLog, [call |-> call, status |-> ERROR,
                                payload |-> [message |-> "Invalid parameters"]])
     /\ puts' = IF getDatabaseDefined THEN Append(puts, put) ELSE puts
     /\ inflight' = IF getDatabaseDefined THEN Append(inflight, put) ELSE inflight
     /\ UNCHANGED << lsDocument, lsTimer, lsMerge, lsTimerIds, timers,
                     nextTimerId, backend, unload, cancelled, settled >>

\* ------------------------------------------------------------ AddItem (store.js)
\* AddItem with valid arguments: a reference with a generated id, the stamped
\* document, setDoc(docRef, document) without options (the document is
\* replaced), and the callback once the promise settles.
AddItem(collectionId, data, docRefId) ==
  LET call == Len(calls) + 1
      document == Spread(data, [_METADATA |->
                    AddItemMetadata(collectionId, docRefId, DateAt(now + 1))])
      put == [ collectionId |-> collectionId, itemId |-> docRefId,
               document |-> document, merge |-> FALSE, call |-> call,
               timer |-> 0, variant |-> "store_add" ]
  IN /\ CanCallOther
     /\ now' = now + 1
     /\ calls' = Append(calls, CallRecord("store_add", collectionId, docRefId,
                                          data, TRUE, FALSE, TRUE, document))
     /\ puts' = Append(puts, put)
     /\ inflight' = Append(inflight, put)
     /\ UNCHANGED << lsDocument, lsTimer, lsMerge, lsTimerIds, timers,
                     nextTimerId, backend, cbLog, cancelled, settled, unload >>

\* ------------------------------------------------------------ settling
\* callback(SUCCESS) without the document.
SettleCallbacksNoPayload(put, ok) ==
  IF put.variant = "asyncstore" THEN << >>
  ELSE << [call |-> put.call, status |-> IF ok THEN SUCCESS ELSE ERROR,
           payload |-> IF ok THEN [undefined |-> TRUE] ELSE [error |-> "backend"]] >>

\* What the .then/.catch handlers of a settled setDoc pass to the callback.
SettleCallbacks(put, ok) ==
  IF put.variant = "asyncstore" THEN << >>
  ELSE IF ok
    THEN << [call |-> put.call, status |-> SUCCESS,
             payload |-> IF put.variant = "store" THEN put.document
                         ELSE IF put.variant = "store_add"
                                THEN [docRef |-> put.itemId]
                                ELSE [undefined |-> TRUE]] >>
    ELSE << [call |-> put.call, status |-> ERROR, payload |-> [error |-> "backend"]] >>

\* The oldest setDoc in flight settles: resolved (ok) or rejected.
PutSettle(ok) ==
  /\ ~Terminated
  /\ inflight # << >>
  /\ LET put == Head(inflight)
         key == documentKey(put.collectionId, put.itemId)
     IN /\ inflight' = Tail(inflight)
        /\ backend' = IF ok
                        THEN With(backend, key,
                                  FirestoreSet(IF key \in DOMAIN backend
                                                 THEN backend[key] ELSE put.document,
                                               key \in DOMAIN backend,
                                               put.document, put.merge))
                        ELSE backend
        /\ cbLog' = cbLog \o SettleCallbacks(put, ok)
        /\ settled' = Append(settled, [call |-> put.call, ok |-> ok])
  /\ UNCHANGED << now, lsDocument, lsTimer, lsMerge, lsTimerIds, timers,
                  nextTimerId, calls, puts, cancelled, unload >>

\* ------------------------------------------------------------ shutdown guard
\* timerIds.length, the property the guard means to read.
length(timerIds) == [defined |-> TRUE, n |-> Len(timerIds)]

\* timerIds.lenth: Array has no property of that name, the read is undefined.
lenth(timerIds) == [defined |-> FALSE, n |-> 0]

\* x > 0 in JavaScript: false when x is undefined.
GreaterThanZero(x) == x.defined /\ x.n > 0

\* The history kept of a run of clearCacheBeforeUnload: its outcome, whether a
\* timeout was armed and a setDoc in flight, and the keys flushed by a timer.
\* clearCacheBeforeUnload(e): "throw" when reading a property of null,
\* "veto" when e.preventDefault() is called and e.returnValue set.
clearCacheOutcome ==
  IF "TIMER_IDS" \notin DOMAIN lsTimerIds THEN "throw"
  ELSE IF GreaterThanZero(lenth(lsTimerIds["TIMER_IDS"])) THEN "veto"
  ELSE "allow"

\* The beforeunload event is delivered; the page goes away unless vetoed.
clearCacheBeforeUnload ==
  /\ ~Terminated
  /\ unload' = [ called |-> TRUE, outcome |-> clearCacheOutcome,
                 armed |-> timers # {}, flushing |-> inflight # << >>,
                 flushed |-> { documentKey(p.collectionId, p.itemId) :
                                 p \in { puts[i] : i \in { j \in 1..Len(puts) :
                                                            puts[j].timer # 0 } } } ]
  /\ UNCHANGED << now, lsDocument, lsTimer, lsMerge, lsTimerIds, timers,
                  nextTimerId, inflight, backend, calls, puts, cbLog, cancelled,
                  settled >>

\* ------------------------------------------------------------ specification
EmptyMap == [x \in {} |-> TRUE]

Init ==
  /\ now = 0
  /\ lsDocument = EmptyMap
  /\ lsTimer = EmptyMap
  /\ lsMerge = EmptyMap
  /\ lsTimerIds = EmptyMap
  /\ timers = {}
  /\ nextTimerId = 1
  /\ inflight = << >>
  /\ backend = EmptyMap
  /\ calls = << >>
  /\ puts = << >>
  /\ cbLog = << >>
  /\ cancelled = {}
  /\ settled = << >>
  /\ unload = [ called |-> FALSE, outcome |-> "none", armed |-> FALSE,
                flushing |-> FALSE, flushed |-> {} ]

Missing == {"collectionId", "itemId", "data"}

\* Writes whose data carries the _METADATA read from the stored document.
MetadataWrites ==
  { Write("u1", d, FALSE) : d \in WithStoredMetadata("users", "u1", [a |-> 1]) }

DelayedWrites == PlainWrites \cup MetadataWrites
ImmediateWrites == { Write("u1", [b |-> 2], FALSE) }
AsyncWrites == { Write("u1", [a |-> 1], FALSE) }
LegacyWrites == { Write("u1", [a |-> 1], FALSE) }
InvalidWrites == { Write("u1", [a |-> 1], FALSE) }

\* Ids Firestore generates for the reference of AddItem.
GeneratedIds == {"g1"}
AddWrites == { Write("g1", [a |-> 1], FALSE) }

\* The buffered writes made among calls of the other functions.
VariantDelayedWrites ==
  { Write("u1", [a |-> 1], FALSE), Write("u1", [b |-> 2], TRUE) }

\* The first SetItem of store.js with valid arguments, its timeouts, its
\* setDoc promises and the beforeunload guard.
Next ==
  \/ \E w \in ImmediateWrites :
       SetItem(w.collectionId, w.itemId, w.data, w.overwrite, FALSE)
  \/ \E w \in DelayedWrites :
       SetItem(w.collectionId, w.itemId, w.data, w.overwrite, TRUE)
  \/ \E t \in timers : TimerFire(t)
  \/ \E ok \in BOOLEAN : PutSettle(ok)
  \/ clearCacheBeforeUnload

Spec == Init /\ [][Next]_vars

\* The buffered writes made on a page that stays open.
FairDelayedWrites ==
  { Write("u1", [a |-> 1], FALSE), Write("u1", [b |-> 2], TRUE),
    Write("u2", [a |-> 1], FALSE) }

\* The handles setTimeout can have returned.
Handles == 1..MaxCalls

\* The page stays open: no beforeunload event is delivered.
FairNext ==
  \/ \E w \in ImmediateWrites :
       SetItem(w.collectionId, w.itemId, w.data, w.overwrite, FALSE)
  \/ \E w \in FairDelayedWrites :
       SetItem(w.collectionId, w.itemId, w.data, w.overwrite, TRUE)
  \/ \E t \in timers : TimerFire(t)
  \/ \E ok \in BOOLEAN : PutSettle(ok)

\* The event loop runs every timeout that stays armed: a timeout that is
\* not cleared expires after its delay and its callback is run.
FairSpec ==
  /\ Init
  /\ [][FairNext]_vars
  /\ \A h \in Handles : WF_vars(\E t \in timers : t.id = h /\ TimerFire(t))

\* Documents an entry of the cache can hold in place of the one SetItem
\* last stored: a document cached for the key before, as JSON.
OtherCachedDocuments ==
  { JSONRoundTrip(Stamp("u1", [z |-> 9], TRUE, DateAt(0))) }

\* The contents of a cached document entry differ from what the calls of the
\* run have stored: the entry of a key holds another document.
CacheDiffers(key, document) ==
  /\ ~Terminated
  /\ key \in DOMAIN lsDocument
  /\ lsDocument[key] # document
  /\ lsDocument' = With(lsDocument, key, document)
  /\ UNCHANGED << now, lsTimer, lsMerge, lsTimerIds, timers, nextTimerId,
                  inflight, backend, calls, puts, cbLog, cancelled, settled,
                  unload >>

\* The runs of the first SetItem of store.js over every content of the
\* cached document entries.
CacheNext ==
  \/ \E w \in ImmediateWrites :
       SetItem(w.collectionId, w.itemId, w.data, w.overwrite, FALSE)
  \/ \E w \in FairDelayedWrites :
       SetItem(w.collectionId, w.itemId, w.data, w.overwrite, TRUE)
  \/ \E t \in timers : TimerFire(t)
  \/ \E ok \in BOOLEAN : PutSettle(ok)
  \/ \E key \in DocumentKeys, d \in OtherCachedDocuments : CacheDiffers(key, d)

CacheSpec == Init /\ [][CacheNext]_vars

\* Every exported SetItem and AddItem, with valid and with missing arguments.
VariantNext ==
  \/ \E w \in ImmediateWrites :
       SetItem(w.collectionId, w.itemId, w.data, w.overwrite, FALSE)
  \/ \E w \in VariantDelayedWrites :
       SetItem(w.collectionId, w.itemId, w.data, w.overwrite, TRUE)
  \/ \E w \in AsyncWrites :
       AsyncSetItem(w.collectionId, w.itemId, w.data, w.overwrite, TRUE)
  \/ \E w \in LegacyWrites, g \in BOOLEAN :
       LegacySetItem(w.collectionId, w.itemId, w.data, w.overwrite, TRUE, g)
  \/ \E w \in InvalidWrites, m \in Missing :
       SetItemInvalid(w.collectionId, w.itemId, w.data, w.overwrite, TRUE, m)
  \/ \E w \in InvalidWrites, m \in Missing :
       AsyncSetItemInvalid(w.collectionId, w.itemId, w.data, w.overwrite, TRUE, m)
  \/ \E w \in InvalidWrites, m \in Missing, g \in BOOLEAN :
       LegacySetItemInvalid(w.collectionId, w.itemId, w.data, w.overwrite, TRUE, m, g)
  \/ \E w \in AddWrites, id \in GeneratedIds :
       AddItem(w.collectionId, w.data, id)
  \/ \E t \in timers : TimerFire(t)
  \/ \E ok \in BOOLEAN : PutSettle(ok)
  \/ clearCacheBeforeUnload

VariantSpec == Init /\ [][VariantNext]_vars

\* ------------------------------------------------------------ history views
KeyOfCall(c) == documentKey(calls[c].collectionId, calls[c].itemId)

\* A burst starts with a buffered write made while no timeout of the key is
\* armed and holds the buffered writes that follow it, each made while the
\* timeout armed by its predecessor has not fired.
BurstStarts == { c \in 1..Len(calls) : calls[c].burst = c }

BurstCalls(s) == { c \in 1..Len(calls) : calls[c].burst = s }

PutsOfBurst(s) == { i \in 1..Len(puts) : calls[puts[i].call].burst = s }

BurstOpen(s) == \E t \in timers : calls[t.call].burst = s

Max(S) == CHOOSE x \in S : \A y \in S : y <= x

\* The setDoc calls made by a timeout.
TimerPuts == { i \in 1..Len(puts) : puts[i].timer # 0 }

\* The burst flushed by a timer put.
BurstOfPut(i) == BurstCalls(calls[puts[i].call].burst)

\* Shallow merge, in call order, of the stamped documents of the calls of
\* burst s up to call c.
RECURSIVE MergedBurst(_, _)
MergedBurst(s, c) ==
  IF c <= s THEN calls[s].document
  ELSE IF calls[c].burst = s
         THEN Spread(MergedBurst(s, c - 1), calls[c].document)
         ELSE MergedBurst(s, c - 1)

\* ------------------------------------------------------------ claims
\* C1: the buffered writes of a burst on one key produce exactly one backend
\* put: none while the burst's timeout is armed, one once it has fired.
CoalescingCount ==
  \A s \in BurstStarts :
    Cardinality(PutsOfBurst(s)) = IF BurstOpen(s) THEN 0 ELSE 1

\* A burst of at least two buffered writes has been flushed by one put.
CoalescingCountWitness ==
  \E s \in BurstStarts :
    /\ Cardinality(BurstCalls(s)) >= 2
    /\ ~BurstOpen(s)
    /\ Cardinality(PutsOfBurst(s)) = 1

\* C2: the document a timer sends is the shallow merge, in call order, of the
\* stamped documents of all writes of the burst. Stated for the bursts that
\* hold no overwrite, where merging is all the cache update does.
FlushedContent ==
  \A i \in TimerPuts :
    (\A c \in BurstOfPut(i) : ~calls[c].overwrite)
      => puts[i].document = MergedBurst(calls[puts[i].call].burst, puts[i].call)

\* C3: a burst holding a write with overwrite=true is flushed with merge=false,
\* wherever in the burst that write is.
OverwriteWins ==
  \A i \in TimerPuts :
    (\E c \in BurstOfPut(i) : calls[c].overwrite) => ~puts[i].merge

\* C3, amended: a burst is flushed with merge = !overwrite of its last write.
LastWriteDecidesMerge ==
  \A i \in TimerPuts : puts[i].merge = ~calls[Max(BurstOfPut(i))].overwrite

\* A burst whose first write overwrites and whose last does not was flushed
\* with merge=true.
LastWriteDecidesMergeWitness ==
  \E i \in TimerPuts :
    /\ \E c \in BurstOfPut(i) : calls[c].overwrite /\ c < Max(BurstOfPut(i))
    /\ ~calls[Max(BurstOfPut(i))].overwrite
    /\ puts[i].merge

\* C4: a key never has two armed timeouts, a timeout replaced by a later write
\* never fires, and the timeout that fires is the one armed by the last write
\* of the burst.
TimerReplacement ==
  /\ \A key \in DocumentKeys : Cardinality(LiveTimers(key)) <= 1
  /\ \A i \in TimerPuts : /\ puts[i].timer \notin cancelled
                          /\ puts[i].call = Max(BurstOfPut(i))

\* A timeout was replaced and the timeout armed in its place has fired.
TimerReplacementWitness ==
  /\ cancelled # {}
  /\ \E i \in TimerPuts : calls[puts[i].call].burst < puts[i].call

\* C5: clearCacheBeforeUnload vetoes whenever a timeout is armed.
ShutdownVeto ==
  (unload.called /\ unload.armed) => unload.outcome = "veto"

\* C6: once every buffered key is flushed (a timer has flushed, no timeout is
\* armed, no setDoc is in flight) clearCacheBeforeUnload lets the page go.
ShutdownRelease ==
  (unload.called /\ unload.flushed # {} /\ ~unload.armed /\ ~unload.flushing)
    => unload.outcome = "allow"

\* clearCacheBeforeUnload ran after a completed flush and did not veto.
ShutdownReleaseWitness ==
  /\ unload.called /\ unload.flushed # {} /\ ~unload.armed /\ ~unload.flushing
  /\ unload.outcome = "allow"

\* A step that is a valid store.js SetItem call with useDelay=false.
ImmediateCallStep ==
  /\ Len(calls') = Len(calls) + 1
  /\ calls'[Len(calls')].variant = "store"
  /\ calls'[Len(calls')].valid
  /\ ~calls'[Len(calls')].useDelay

ImmediateCalls ==
  { c \in 1..Len(calls) : /\ calls[c].variant = "store" /\ calls[c].valid
                          /\ ~calls[c].useDelay }

\* C7: a SetItem call with useDelay=false makes exactly one put, in the call,
\* arms no timeout and leaves the cached documents, the merge flags, the timer
\* entries and TIMER_IDS as they were.
ImmediatePathFrame ==
  /\ [](\A c \in ImmediateCalls :
          Cardinality({ i \in 1..Len(puts) : puts[i].call = c }) = 1)
  /\ [][ImmediateCallStep =>
          /\ Len(puts') = Len(puts) + 1
          /\ puts'[Len(puts')].call = Len(calls')
          /\ timers' = timers
          /\ nextTimerId' = nextTimerId
          /\ UNCHANGED << lsDocument, lsMerge, lsTimer, lsTimerIds >>]_vars

\* An immediate write was made while a write of the same key was buffered.
ImmediatePathFrameWitness ==
  /\ Len(calls) \in ImmediateCalls
  /\ LiveTimers(KeyOfCall(Len(calls))) # {}
  /\ KeyOfCall(Len(calls)) \in DOMAIN lsDocument
  /\ puts # << >> /\ puts[Len(puts)].call = Len(calls)

\* No timeout of the key is armed and no flush of the key is in flight.
Idle(key) ==
  /\ LiveTimers(key) = {}
  /\ \A j \in 1..Len(inflight) :
       ~(inflight[j].timer # 0 /\
         documentKey(inflight[j].collectionId, inflight[j].itemId) = key)

\* C8: once the flush of a key has completed, the cached document and the
\* timer entry of the key are gone.
LifecycleDestroyed ==
  \A key \in DocumentKeys :
    Idle(key) => key \notin DOMAIN lsDocument /\ key \notin DOMAIN lsTimer

\* C9: the put of a call made with useDelay=true is made by a timeout, never
\* in the call itself, whichever SetItem is called.
DelayedRouting ==
  \A i \in 1..Len(puts) : calls[puts[i].call].useDelay => puts[i].timer # 0

\* C10: a call with overwrite=false on a key whose stored document has a
\* _DATE_CREATED stamps the document with that stored _DATE_CREATED.
CreationDatePreserved ==
  \A c \in 1..Len(calls) :
    (calls[c].variant = "store" /\ calls[c].valid /\ ~calls[c].overwrite)
      => \A d \in calls[c].stored :
           ("_METADATA" \in DOMAIN d /\ "_DATE_CREATED" \in DOMAIN d._METADATA)
             => /\ "_DATE_CREATED" \in DOMAIN calls[c].document._METADATA
                /\ calls[c].document._METADATA._DATE_CREATED
                     = d._METADATA._DATE_CREATED

\* The valid calls of the SetItem functions that stamp (store.js first
\* definition, asyncstore.js) and the valid calls of AddItem.
StampingSetItemCalls ==
  { c \in 1..Len(calls) : /\ calls[c].valid
                          /\ calls[c].variant \in {"store", "asyncstore"} }

AddItemCalls ==
  { c \in 1..Len(calls) : calls[c].valid /\ calls[c].variant = "store_add" }

\* C11: a document built by AddItem has _DATE_CREATED = _DATE_LAST_MODIFIED
\* and the generated id of its reference as _DOCUMENT_ID; a document built by
\* SetItem has the date of the call as _DATE_LAST_MODIFIED, itemId as
\* _DOCUMENT_ID and, with overwrite, _DATE_CREATED = _DATE_LAST_MODIFIED; the
\* document each of these calls puts is the one it built.
Stamping ==
  /\ \A c \in AddItemCalls :
       LET m == calls[c].document._METADATA
       IN /\ m._DATE_CREATED = m._DATE_LAST_MODIFIED
          /\ \A i \in 1..Len(puts) :
               puts[i].call = c => /\ m._DOCUMENT_ID = puts[i].itemId
                                   /\ puts[i].document = calls[c].document
  /\ \A c \in StampingSetItemCalls :
       LET m == calls[c].document._METADATA
       IN /\ m._DATE_LAST_MODIFIED = DateAt(calls[c].at)
          /\ m._DOCUMENT_ID = calls[c].itemId
          /\ calls[c].overwrite =>
               /\ "_DATE_CREATED" \in DOMAIN m
               /\ m._DATE_CREATED = m._DATE_LAST_MODIFIED
          /\ \A i \in 1..Len(puts) :
               puts[i].call = c => puts[i].document = calls[c].document

\* AddItem has put its document, and an overwriting SetItem made after an
\* earlier write has put its own.
StampingWitness ==
  /\ \E i \in 1..Len(puts) : puts[i].call \in AddItemCalls
  /\ \E i \in 1..Len(puts) :
       /\ puts[i].call \in StampingSetItemCalls
       /\ calls[puts[i].call].overwrite
       /\ puts[i].call > 1

\* A step that is a SetItem call with an argument missing.
InvalidCallStep ==
  /\ Len(calls') = Len(calls) + 1
  /\ ~calls'[Len(calls')].valid

InvalidCalls == { c \in 1..Len(calls) : ~calls[c].valid }

FailedCalls ==
  { settled[k].call : k \in { j \in 1..Len(settled) :
      /\ ~settled[j].ok
      /\ calls[settled[j].call].variant \in {"store", "asyncstore"} } }

\* C13: a write whose put failed has had its callback invoked with ERROR
\* exactly once and has been put exactly once, in the store and in the
\* asyncstore SetItem.
FailedFlush ==
  \A c \in FailedCalls :
    /\ Cardinality({ k \in 1..Len(cbLog) :
                       cbLog[k].call = c /\ cbLog[k].status = ERROR }) = 1
    /\ Cardinality({ i \in 1..Len(puts) : puts[i].call = c }) = 1

\* The calls of the first SetItem of store.js whose setDoc promise resolved.
SucceededCalls ==
  { settled[k].call : k \in { j \in 1..Len(settled) :
      settled[j].ok /\ calls[settled[j].call].variant = "store" } }

\* The callback invocations of call c with status SUCCESS.
SuccessCallbacks(c) ==
  { k \in 1..Len(cbLog) : cbLog[k].call = c /\ cbLog[k].status = SUCCESS }

\* C14: a SetItem call of store.js has its callback invoked with SUCCESS
\* exactly once when its put has succeeded and not before, and the payload is
\* the document sent in that put.
SuccessCallback ==
  \A c \in 1..Len(calls) :
    calls[c].variant = "store" =>
      /\ Cardinality(SuccessCallbacks(c)) = IF c \in SucceededCalls THEN 1 ELSE 0
      /\ \A k \in SuccessCallbacks(c) :
           \E i \in 1..Len(puts) :
             /\ puts[i].call = c
             /\ cbLog[k].payload = puts[i].document

\* The flush of a burst of two writes has succeeded and its callback was
\* invoked with the document the timeout sent.
SuccessCallbackWitness ==
  \E i \in TimerPuts :
    /\ puts[i].call \in SucceededCalls
    /\ calls[puts[i].call].burst < puts[i].call
    /\ \E k \in SuccessCallbacks(puts[i].call) :
         cbLog[k].payload = puts[i].document

\* The handles held by the TIMER_IDS entry.
Registry == { ReadTimerIds[k] : k \in 1..Len(ReadTimerIds) }

\* C15: the handle of every armed timeout is in TIMER_IDS.
RegistryComplete ==
  \A t \in timers : t.id \in Registry

\* The handles of the timeouts that fired.
FiredHandles == { puts[i].timer : i \in TimerPuts }

\* C16: TIMER_IDS holds no handle of a timeout that fired or was replaced,
\* and is empty once no timeout is armed.
RegistrySound ==
  /\ Registry \cap (FiredHandles \cup cancelled) = {}
  /\ timers = {} => Registry = {}

\* A step that is a valid store.js SetItem call with useDelay=true.
DelayedCallStep ==
  /\ Len(calls') = Len(calls) + 1
  /\ calls'[Len(calls')].variant = "store"
  /\ calls'[Len(calls')].valid
  /\ calls'[Len(calls')].useDelay

\* A step in which a timeout fires and makes its put.
TimerFireStep ==
  /\ Len(puts') = Len(puts) + 1
  /\ puts'[Len(puts')].timer # 0

\* The key written by the call, and by the put, the step has added.
KeyOfNewCall ==
  documentKey(calls'[Len(calls')].collectionId, calls'[Len(calls')].itemId)

KeyOfNewPut ==
  documentKey(puts'[Len(puts')].collectionId, puts'[Len(puts')].itemId)

\* C17: after a delayed write the key's -MERGE entry is !overwrite of that
\* write, and the put a firing timeout makes has merge equal to the key's
\* -MERGE entry at the time it fires.
MergeIntent ==
  /\ [][DelayedCallStep =>
          lsMerge'[KeyOfNewCall] = ~calls'[Len(calls')].overwrite]_vars
  /\ [][TimerFireStep =>
          /\ KeyOfNewPut \in DOMAIN lsMerge
          /\ puts'[Len(puts')].merge = lsMerge[KeyOfNewPut]]_vars

\* A burst whose writes differ in overwrite was flushed, with the merge the
\* key's -MERGE entry holds.
MergeIntentWitness ==
  \E i \in TimerPuts :
    /\ \E c, d \in BurstOfPut(i) : calls[c].overwrite # calls[d].overwrite
    /\ puts[i].merge = lsMerge[documentKey(puts[i].collectionId, puts[i].itemId)]

\* The delayed calls of the first SetItem of store.js.
DelayedCall(c) ==
  calls[c].variant = "store" /\ calls[c].valid /\ calls[c].useDelay

\* The cached document of a key after the first c calls, as a set (empty
\* when nothing is cached): each delayed write on the key, in call order,
\* replaces it when it overwrites or finds nothing cached, and is merged
\* over it otherwise. Documents are cached as JSON.
RECURSIVE CacheAfter(_, _)
CacheAfter(key, c) ==
  IF c = 0 THEN {}
  ELSE LET before == CacheAfter(key, c - 1)
       IN IF ~(DelayedCall(c) /\ KeyOfCall(c) = key) THEN before
          ELSE IF calls[c].overwrite \/ before = {}
                 THEN { JSONRoundTrip(calls[c].document) }
                 ELSE { JSONRoundTrip(Spread(d, calls[c].document)) : d \in before }

\* C18: a delayed write on a key that has a cached document leaves as cached
\* document its stamped document when it overwrites and otherwise the
\* shallow merge of the previous cached document with its stamped document,
\* the new values winning; the cached document is the result of applying the
\* delayed writes of the key in call order. The cache holds documents as
\* JSON, and documents are compared as JSON.
CacheMergeStep ==
  /\ [](\A key \in DocumentKeys :
          CacheAfter(key, Len(calls))
            = IF key \in DOMAIN lsDocument THEN { lsDocument[key] } ELSE {})
  /\ [][(DelayedCallStep /\ KeyOfNewCall \in DOMAIN lsDocument) =>
          lsDocument'[KeyOfNewCall] =
            IF calls'[Len(calls')].overwrite
              THEN JSONRoundTrip(calls'[Len(calls')].document)
              ELSE JSONRoundTrip(Spread(lsDocument[KeyOfNewCall],
                                        calls'[Len(calls')].document))]_vars

\* The last call merged its document over a cached document that held a
\* field it does not write: the cache holds both fields and the new
\* _METADATA.
CacheMergeStepWitness ==
  /\ Len(calls) >= 2
  /\ DelayedCall(Len(calls)) /\ ~calls[Len(calls)].overwrite
  /\ LET key == KeyOfCall(Len(calls))
     IN /\ DOMAIN lsDocument[key] = {"a", "b", "_METADATA"}
        /\ DOMAIN calls[Len(calls)].data = {"b"}
        /\ lsDocument[key]._METADATA
             = JSONMetadata(calls[Len(calls)].document._METADATA)

\* The timeout armed by the step.
NewTimers == timers' \ timers

\* C19: a delayed write on a key with no pending write (no timeout armed, no
\* flush in flight), a key whose flush has completed included, arms a timeout
\* of 5000 ms; a delayed write on a key whose timeout is armed arms one of
\* 3000 ms.
DelaySelection ==
  [][DelayedCallStep =>
       /\ NewTimers # {}
       /\ \A t \in NewTimers :
            /\ Idle(KeyOfNewCall) => t.delay = InitialDelay
            /\ LiveTimers(KeyOfNewCall) # {} => t.delay = RepeatDelay]_vars

\* A put of the key made by a timeout is in flight.
Flushing(key) ==
  /\ LiveTimers(key) = {}
  /\ \E j \in 1..Len(inflight) :
       /\ inflight[j].timer # 0
       /\ documentKey(inflight[j].collectionId, inflight[j].itemId) = key

\* C20: a delayed write on a key whose flush is in flight leaves the put in
\* flight as it is, caches exactly its own stamped document (as JSON) and
\* arms a timeout of 5000 ms.
WriteDuringFlush ==
  [][(DelayedCallStep /\ Flushing(KeyOfNewCall)) =>
       /\ inflight' = inflight
       /\ lsDocument'[KeyOfNewCall] = JSONRoundTrip(calls'[Len(calls')].document)
       /\ \A t \in NewTimers : t.delay = InitialDelay]_vars

\* The timeout with handle h is armed.
Armed(h) == \E t \in timers : t.id = h

\* C21: on a page that stays open, an armed timeout leads to a put of its
\* key made by that timeout, unless a later write on the key replaces it.
EventualFlush ==
  \A h \in Handles : Armed(h) ~> (h \in FiredHandles \/ h \in cancelled)

\* The timeout armed by the last write of a key has fired, on a page that
\* has also written another key before.
EventualFlushWitness ==
  \E i \in TimerPuts :
    /\ puts[i].timer \notin cancelled
    /\ \A c \in 1..Len(calls) :
         KeyOfCall(c) = KeyOfCall(puts[i].call) => c <= puts[i].call
    /\ \E c \in 1..Len(calls) :
         c < puts[i].call /\ KeyOfCall(c) # KeyOfCall(puts[i].call)

\* The handles of the timeouts armed for a key that are armed or have fired.
HandlesOfKey(key) ==
  { t.id : t \in LiveTimers(key) } \cup
  { puts[i].timer : i \in { j \in TimerPuts :
      documentKey(puts[j].collectionId, puts[j].itemId) = key } }

\* The entry of a key in one family of localStorage entries is the same in
\* m and in n.
SameEntry(m, n, key) ==
  /\ key \in DOMAIN m <=> key \in DOMAIN n
  /\ key \in DOMAIN m => m[key] = n[key]

\* The step leaves alone all that belongs to the key: its cached document,
\* its merge flag, its timer entry, its armed timeout and its handles in
\* TIMER_IDS.
KeyUntouched(key) ==
  /\ SameEntry(lsDocument, lsDocument', key)
  /\ SameEntry(lsMerge, lsMerge', key)
  /\ SameEntry(lsTimer, lsTimer', key)
  /\ LiveTimers(key)' = LiveTimers(key)
  /\ (Registry \cap HandlesOfKey(key)) \subseteq Registry'

\* A step that is a SetItem call, and a step in which a setDoc settles.
CallStep == Len(calls') = Len(calls) + 1

SettleStep == Len(settled') = Len(settled) + 1

KeyOfSettledPut ==
  documentKey(Head(inflight).collectionId, Head(inflight).itemId)

SettledCalls == { settled[k].call : k \in 1..Len(settled) }

\* The callback invocations of call c.
Callbacks(c) == { k \in 1..Len(cbLog) : cbLog[k].call = c }

\* C23: of the delayed writes of a burst only the last has its callback
\* invoked, once, when its put has settled; the callback of a write whose
\* timeout was replaced is never invoked.
SupersededCallbacks ==
  \A s \in BurstStarts :
    \A c \in BurstCalls(s) :
      Cardinality(Callbacks(c)) =
        IF c = Max(BurstCalls(s)) /\ c \in SettledCalls THEN 1 ELSE 0

\* A burst of three writes has been flushed and its put has settled: the
\* third write's callback was invoked, the first two never.
SupersededCallbacksWitness ==
  \E s \in BurstStarts :
    /\ Cardinality(BurstCalls(s)) = 3
    /\ Max(BurstCalls(s)) \in SettledCalls
    /\ Cardinality(Callbacks(Max(BurstCalls(s)))) = 1
    /\ \A c \in BurstCalls(s) : c # Max(BurstCalls(s)) => Callbacks(c) = {}

\* C24: a SetItem call with useDelay=false leaves every armed timeout armed
\* and replaces none, and a timeout that fires puts the document of the call
\* that armed it, whatever was put since.
ImmediateDoesNotSupersede ==
  /\ [][ImmediateCallStep => timers' = timers /\ cancelled' = cancelled]_vars
  /\ [](\A i \in TimerPuts : puts[i].document = calls[puts[i].call].document)

\* The last put of a key was made by a timeout armed before an immediate
\* write of the key, which was put earlier: the last put carries the older
\* data.
ImmediateDoesNotSupersedeWitness ==
  \E i \in TimerPuts :
    /\ \A j \in 1..Len(puts) :
         documentKey(puts[j].collectionId, puts[j].itemId)
           = documentKey(puts[i].collectionId, puts[i].itemId) => j <= i
    /\ \E j \in 1..Len(puts) :
         /\ j < i
         /\ puts[j].timer = 0
         /\ documentKey(puts[j].collectionId, puts[j].itemId)
              = documentKey(puts[i].collectionId, puts[i].itemId)
         /\ puts[j].call > puts[i].call
         /\ calls[puts[j].call].at > calls[puts[i].call].at

\* C25: whatever the cached document entries hold, every put has the key,
\* the stamped document and merge = !overwrite of the call it belongs to, a
\* timer put being that of the call that armed the timeout; so do the armed
\* timeouts. The puts of a run are thus fixed by its calls and timer fires.
CacheNonInterference ==
  /\ \A i \in 1..Len(puts) :
       /\ puts[i].collectionId = calls[puts[i].call].collectionId
       /\ puts[i].itemId = calls[puts[i].call].itemId
       /\ puts[i].document = calls[puts[i].call].document
       /\ puts[i].merge = ~calls[puts[i].call].overwrite
       /\ puts[i].timer # 0 => DelayedCall(puts[i].call)
  /\ \A t \in timers :
       /\ DelayedCall(t.call)
       /\ t.collectionId = calls[t.call].collectionId
       /\ t.itemId = calls[t.call].itemId
       /\ t.document = calls[t.call].document
       /\ t.overwrite = calls[t.call].overwrite

\* A write was merged over a cached document that no call of the run had
\* stored, and its timeout has put the write's own stamped document.
CacheNonInterferenceWitness ==
  \E i \in TimerPuts :
    LET key == documentKey(puts[i].collectionId, puts[i].itemId)
    IN /\ DOMAIN lsDocument[key] = {"a", "z", "_METADATA"}
       /\ DOMAIN puts[i].document = {"a", "_METADATA"}
       /\ lsDocument[key]._METADATA = JSONMetadata(puts[i].document._METADATA)

\* C26: clearCacheBeforeUnload never raises an error, and where no delayed
\* write was ever made (TIMER_IDS is absent) it lets the page go.
GuardTotal ==
  unload.called =>
    /\ unload.outcome # "throw"
    /\ "TIMER_IDS" \notin DOMAIN lsTimerIds => unload.outcome = "allow"

====
